---------------------------- MODULE Spec2Model ----------------------------
(***************************************************************************)
(* Model of the source-indexing core of nasal-ls (src/src/ls.rs):          *)
(*   - Library::process_scopes, the brace scope tracker,                   *)
(*   - Library::add_file / get_file, the file store,                       *)
(*   - Definitions::add / matches / definition, the definition registry.   *)
(*                                                                         *)
(* A text is a sequence of characters, each a one-element string.  The     *)
(* alphabet holds the characters the scanner tells apart: the two braces,  *)
(* the comment mark, a whitespace character, the line feed, an ordinary    *)
(* one-byte character and a character whose UTF-8 encoding is wider than   *)
(* one byte.  Carriage returns are not in the alphabet.                    *)
(***************************************************************************)
EXTENDS Integers, Sequences, FiniteSets, TLC

\* file:     the File handed to process_scopes (scope tracker on its own)
\* catalog:  Library.catalog, uri -> File
\* upserted: history: for each uri, the text of the latest add_file call
\* defs:     Definitions.defs, name -> list of occurrences, front first
\* panicked: whether a panic!() was reached
\* adds:     history: the Definitions::add calls made, in order
\* call:     the latest call, ret: what it returned
\* status:   where main_loop is: running, or how it ended
\* sent:     the Responses main_loop put on connection.sender, in order
\* handled:  history: the messages main_loop took from the receiver, in order
VARIABLES file, catalog, upserted, defs, panicked, adds, call, ret, status, sent, handled

vars == <<file, catalog, upserted, defs, panicked, adds, call, ret, status, sent, handled>>

---------------------------------------------------------------------------
(* Bounds *)

\* longest text handed to process_scopes in SpecScopes
MaxLen == 5

\* longest text handed to add_file in SpecLibrary
MaxLibLen == 2

\* most Definitions::add calls made in SpecDefs
MaxAdds == 3

---------------------------------------------------------------------------
(* Characters and texts *)

LBRACE == "{"
RBRACE == "}"
HASH == "#"
SPACE == " "
NL == "\n"
PLAIN == "x"
\* a character of two UTF-8 bytes, such as U+00E9
WIDE == "U+00E9"

Chars == {LBRACE, RBRACE, HASH, SPACE, NL, PLAIN, WIDE}

\* char::len_utf8
Utf8Len(c) == IF c = WIDE THEN 2 ELSE 1

\* char::is_whitespace, as used by str::trim_start
IsWhitespace(c) == c \in {SPACE, NL}

StringsUpTo(S, n) == UNION {[1..k -> S] : k \in 0..n}

Texts == StringsUpTo(Chars, MaxLen)

LibTexts == StringsUpTo({LBRACE, RBRACE, NL}, MaxLibLen)

\* the spec's examples: four lines "{", "{", "}", "}", and three lines
\* "{", "#{", "}"
ExampleNested == <<LBRACE, NL, LBRACE, NL, RBRACE, NL, RBRACE, NL>>
ExampleCommentedOpen == <<LBRACE, NL, HASH, LBRACE, NL, RBRACE, NL>>

ScopeTexts == Texts \cup {ExampleNested, ExampleCommentedOpen}

---------------------------------------------------------------------------
(* Option and Result *)

None == [some |-> FALSE]
Some(v) == [some |-> TRUE, val |-> v]

Ok == [ok |-> TRUE]
Err(msg) == [ok |-> FALSE, err |-> msg]

ErrUnmatched == "Unmatched "
ErrParseFailed == "Scope Parse Failed"

---------------------------------------------------------------------------
(* str::lines, str::trim_start, str::get(..1) *)

FirstNL(s) == IF \E i \in 1..Len(s) : s[i] = NL THEN CHOOSE i \in 1..Len(s) : s[i] = NL /\ \A j \in 1..(i - 1) : s[j] # NL ELSE 0

RECURSIVE Lines(_)
\* text.lines(): the pieces between line feeds; a final empty piece is no line
Lines(s) ==
    IF s = <<>> THEN <<>>
    ELSE LET i == FirstNL(s)
         IN  IF i = 0 THEN <<s>>
             ELSE <<SubSeq(s, 1, i - 1)>> \o Lines(SubSeq(s, i + 1, Len(s)))

RECURSIVE TrimStart(_)
TrimStart(s) == IF s # <<>> /\ IsWhitespace(Head(s)) THEN TrimStart(Tail(s)) ELSE s

\* s.get(..1): the first byte as a string slice, when byte offset 1 is in
\* the string and on a character boundary
GetFirstByte(s) ==
    IF s = <<>> THEN None
    ELSE IF Utf8Len(Head(s)) # 1 THEN None
    ELSE Some(<<Head(s)>>)

---------------------------------------------------------------------------
(* File *)

FileDefault == [uri |-> "", text |-> <<>>, ast |-> "", scopes |-> <<>>]

with_text(text) == [uri |-> "", text |-> text, ast |-> "", scopes |-> <<>>]

---------------------------------------------------------------------------
(* Library::process_scopes *)

\* the locals of process_scopes before the scan
ScanInit == [failure |-> None, line_number |-> 0, scope_idx |-> 0, init_scopes |-> <<>>, inter_scopes |-> <<>>]

\* the '{' arm
OpenBrace(st) ==
    [st EXCEPT !.init_scopes = Append(@, [start |-> st.line_number, idx |-> st.scope_idx]),
               !.inter_scopes = Append(@, None),
               !.scope_idx = @ + 1]

\* a plausible slip: the span written as [end, start]
CloseBraceSwapped(st) ==
    IF st.init_scopes = <<>> THEN [st EXCEPT !.failure = Some(Err(ErrUnmatched))]
    ELSE LET scope == st.init_scopes[Len(st.init_scopes)]
             front == SubSeq(st.inter_scopes, 1, scope.idx)
             back == SubSeq(st.inter_scopes, scope.idx + 1, Len(st.inter_scopes))
         IN  [st EXCEPT !.init_scopes = SubSeq(@, 1, Len(@) - 1),
                        !.inter_scopes = front \o (<<Some(<<st.line_number, scope.start>>)>> \o Tail(back))]

\* the '}' arm: pop_back, then split_off / pop_front / push_front / append
CloseBrace(st) ==
    IF st.init_scopes = <<>> THEN [st EXCEPT !.failure = Some(Err(ErrUnmatched))]
    ELSE LET scope == st.init_scopes[Len(st.init_scopes)]
             front == SubSeq(st.inter_scopes, 1, scope.idx)
             back == SubSeq(st.inter_scopes, scope.idx + 1, Len(st.inter_scopes))
         IN  [st EXCEPT !.init_scopes = SubSeq(@, 1, Len(@) - 1),
                        !.inter_scopes = front \o (<<Some(<<scope.start, st.line_number>>)>> \o Tail(back))]

\* the closure applied to each char of a scanned line
OnChar(st, char) ==
    IF char = LBRACE THEN OpenBrace(st)
    ELSE IF char = RBRACE THEN CloseBrace(st)
    ELSE st

RECURSIVE ScanChars(_, _, _)
\* line.chars().for_each(..)
ScanChars(st, line, i) == IF i > Len(line) THEN st ELSE ScanChars(OnChar(st, line[i]), line, i + 1)

\* a plausible slip: the comment mark looked for at the start of the
\* untrimmed line
OnLineUntrimmed(st, line) ==
    LET chars == GetFirstByte(line)
    IN  IF chars.some
        THEN LET scanned == IF chars.val # <<HASH>> THEN ScanChars(st, line, 1) ELSE st
             IN  [scanned EXCEPT !.line_number = @ + 1]
        ELSE st

\* a plausible slip: comment lines scanned like the others
OnLineScanComments(st, line) ==
    LET chars == GetFirstByte(TrimStart(line))
    IN  IF chars.some
        THEN [ScanChars(st, line, 1) EXCEPT !.line_number = @ + 1]
        ELSE st

\* the closure applied to each line
OnLine(st, line) ==
    LET chars == GetFirstByte(TrimStart(line))
    IN  IF chars.some
        THEN LET scanned == IF chars.val # <<HASH>> THEN ScanChars(st, line, 1) ELSE st
             IN  [scanned EXCEPT !.line_number = @ + 1]
        ELSE st

RECURSIVE ScanLines(_, _, _)
\* file.text.lines().for_each(..)
ScanLines(st, lines, i) == IF i > Len(lines) THEN st ELSE ScanLines(OnLine(st, lines[i]), lines, i + 1)

\* inter_scopes mapped to final_scopes: an unresolved slot becomes [0, 0]
FinalScopes(inter) == [i \in 1..Len(inter) |-> IF inter[i].some THEN inter[i].val ELSE <<0, 0>>]

\* failure after the map: an unresolved slot overwrites it
FinalFailure(st) ==
    IF \E i \in 1..Len(st.inter_scopes) : ~st.inter_scopes[i].some
    THEN Some(Err(ErrParseFailed))
    ELSE st.failure

process_scopes(f) ==
    LET st == ScanLines(ScanInit, Lines(f.text), 1)
        failure == FinalFailure(st)
    IN  IF failure.some
        THEN [file |-> f, res |-> failure.val]
        ELSE [file |-> [f EXCEPT !.scopes = FinalScopes(st.inter_scopes)], res |-> Ok]

---------------------------------------------------------------------------
(* std::collections::HashMap as a function on the keys present *)

EmptyMap == <<>>

MapGet(m, k) == IF k \in DOMAIN m THEN Some(m[k]) ELSE None

\* HashMap::insert: the map with k bound to v, and the value k had before
MapInsert(m, k, v) == [map |-> [x \in (DOMAIN m) \cup {k} |-> IF x = k THEN v ELSE m[x]], old |-> MapGet(m, k)]

---------------------------------------------------------------------------
(* Library::add_file, Library::get_file *)

Uris == {"a.nas", "b.nas"}

\* a plausible slip: the scope error propagated before the insert
add_file_abort(cat, filepath, text) ==
    LET f == [FileDefault EXCEPT !.uri = filepath, !.text = text, !.ast = ""]
        r == process_scopes(f)
    IN  IF r.res.ok THEN [catalog |-> MapInsert(cat, filepath, r.file).map, res |-> r.res]
        ELSE [catalog |-> cat, res |-> r.res]

\* a plausible slip: the record built from the one already in the catalog
add_file_stale(cat, filepath, text) ==
    LET old == IF filepath \in DOMAIN cat THEN cat[filepath] ELSE FileDefault
        f == [old EXCEPT !.uri = filepath, !.text = text, !.ast = ""]
        r == process_scopes(f)
    IN  [catalog |-> MapInsert(cat, filepath, r.file).map, res |-> r.res]

add_file(cat, filepath, text) ==
    LET f == [FileDefault EXCEPT !.uri = filepath, !.text = text, !.ast = ""]
        r == process_scopes(f)
    IN  [catalog |-> MapInsert(cat, filepath, r.file).map, res |-> r.res]

get_file(cat, filepath) == MapGet(cat, filepath)

---------------------------------------------------------------------------
(* NasalLspType, Location, Definitions *)

Kinds == {"FuncDef", "IdentDef", "Func", "IdentRef"}

\* lsp_types::Location: a uri and a range, the range told by its first line
Locations == [uri : {"a.nas"}, line : {0, 1}]

\* NasalLspType: a variant and the Location it holds
Occurrences == [kind : Kinds, loc : Locations]

Names == {"foo", "bar"}

\* NasalLspType::location
location(node) == node.loc

ErrNoValues == "No Values"
ErrNoDefinition == "No definition exists for ident:"

\* a plausible slip: nodes compared whole, variant and Location
list_search_whole(list, def) ==
    LET hits == {i \in 1..Len(list) : list[i] = def}
    IN  IF hits = {} THEN None ELSE Some(location(list[CHOOSE i \in hits : \A j \in hits : i <= j]))

\* list_search(&list, def.location()): the Location of the first node, from
\* the front, whose Location equals that of def
list_search(list, def) ==
    LET hits == {i \in 1..Len(list) : location(list[i]) = location(def)}
    IN  IF hits = {} THEN None ELSE Some(location(list[CHOOSE i \in hits : \A j \in hits : i <= j]))

\* Definitions::new_list: an empty list put under key; panics when the key
\* was there
new_list(d, key) ==
    LET ins == MapInsert(d, key, <<>>)
    IN  [defs |-> ins.map, panicked |-> ins.old.some]

\* a plausible slip: the list of the key replaced by one holding def alone
add_replace(d, key, def) ==
    IF key \in DOMAIN d
    THEN IF ~list_search(d[key], def).some
         THEN [defs |-> [d EXCEPT ![key] = <<def>>], panicked |-> FALSE]
         ELSE [defs |-> d, panicked |-> FALSE]
    ELSE new_list(d, key)

\* a plausible slip: the list created without looking for the key
add_unchecked(d, key, def) == new_list(d, key)

\* Definitions::add
add(d, key, def) ==
    IF key \in DOMAIN d
    THEN IF ~list_search(d[key], def).some
         THEN [defs |-> [d EXCEPT ![key] = <<def>> \o @], panicked |-> FALSE]
         ELSE [defs |-> d, panicked |-> FALSE]
    ELSE new_list(d, key)

\* Definitions::matches
matches(d, key) == MapGet(d, key)

RECURSIVE FoldNodes(_, _, _)
\* list.iter().fold(init, |res, node| Ok(node)), from the front
FoldNodes(res, list, i) == IF i > Len(list) THEN res ELSE FoldNodes([ok |-> TRUE, val |-> list[i]], list, i + 1)

\* Definitions::definition
definition(d, key, loc) ==
    LET m == matches(d, key)
    IN  IF m.some THEN FoldNodes(Err(ErrNoValues), m.val, 1)
        ELSE Err(ErrNoDefinition \o key)

---------------------------------------------------------------------------
(* Calls and returns *)

NoCall == [op |-> "none", args |-> <<>>]
NoRet == [ok |-> FALSE, err |-> "not returned"]

---------------------------------------------------------------------------
(* SpecScopes: process_scopes applied to a File made by File::with_text *)

InitScopes ==
    /\ file \in {with_text(t) : t \in ScopeTexts}
    /\ catalog = EmptyMap
    /\ upserted = EmptyMap
    /\ defs = EmptyMap
    /\ panicked = FALSE
    /\ adds = <<>>
    /\ call = NoCall
    /\ ret = NoRet
    /\ status = "running"
    /\ sent = <<>>
    /\ handled = <<>>

ProcessScopes ==
    /\ call.op = "none"
    /\ LET r == process_scopes(file)
       IN  /\ file' = r.file
           /\ ret' = r.res
    /\ call' = [op |-> "process_scopes", args |-> <<>>]
    /\ UNCHANGED <<catalog, upserted, defs, panicked, adds, status, sent, handled>>

NextScopes == ProcessScopes

SpecScopes == InitScopes /\ [][NextScopes]_vars

---------------------------------------------------------------------------
(* What the text itself says: positions, lines, comment lines, the braces  *)
(* outside comment lines and their last-opened-first-closed matching.      *)
(* These read the text by position and are what the scanner's results are  *)
(* compared with.                                                          *)

\* zero-based number of the line holding position p
LineNumberAt(text, p) == Cardinality({j \in 1..(p - 1) : text[j] = NL})

\* first position of the line holding position p
LineStartAt(text, p) == IF \E j \in 1..(p - 1) : text[j] = NL THEN 1 + CHOOSE j \in 1..(p - 1) : text[j] = NL /\ \A k \in (j + 1)..(p - 1) : text[k] # NL ELSE 1

\* position after the last character of the line that starts at s
LineEndFrom(text, s) == IF \E j \in s..Len(text) : text[j] = NL THEN CHOOSE j \in s..Len(text) : text[j] = NL /\ \A k \in s..(j - 1) : text[k] # NL ELSE Len(text) + 1

\* position p lies on a line whose first non-whitespace character is '#'
InCommentLine(text, p) ==
    LET s == LineStartAt(text, p)
        e == LineEndFrom(text, s)
        marks == {j \in s..(e - 1) : ~IsWhitespace(text[j])}
    IN  marks # {} /\ text[CHOOSE j \in marks : \A k \in marks : j <= k] = HASH

IsBrace(c) == c \in {LBRACE, RBRACE}

RECURSIVE RefScan(_, _, _, _)
\* The braces outside comment lines matched with a stack.  acc.slots holds
\* one <<start, end>> per '{' in opening order, end = -1 while it is open;
\* acc.unmatched tells whether a '}' came while no '{' was pending.
RefScan(text, p, stack, acc) ==
    IF p > Len(text) THEN acc
    ELSE IF ~IsBrace(text[p]) \/ InCommentLine(text, p) THEN RefScan(text, p + 1, stack, acc)
    ELSE IF text[p] = LBRACE
         THEN RefScan(text, p + 1, Append(stack, Len(acc.slots) + 1), [acc EXCEPT !.slots = Append(@, <<LineNumberAt(text, p), -1>>)])
    ELSE IF stack = <<>> THEN RefScan(text, p + 1, stack, [acc EXCEPT !.unmatched = TRUE])
    ELSE RefScan(text, p + 1, SubSeq(stack, 1, Len(stack) - 1), [acc EXCEPT !.slots[stack[Len(stack)]][2] = LineNumberAt(text, p)])

RefMatch(text) == RefScan(text, 1, <<>>, [slots |-> <<>>, unmatched |-> FALSE])

HasUnmatchedClose(text) == RefMatch(text).unmatched

HasUnclosedOpen(text) == \E i \in 1..Len(RefMatch(text).slots) : RefMatch(text).slots[i][2] = -1

\* the text is made of braces, blanks and line feeds only
BraceOnly(text) == \A p \in 1..Len(text) : text[p] \in {LBRACE, RBRACE, SPACE, NL}

RECURSIVE BalancedFrom(_, _, _)
BalancedFrom(text, p, depth) ==
    IF p > Len(text) THEN depth = 0
    ELSE IF text[p] = LBRACE THEN BalancedFrom(text, p + 1, depth + 1)
    ELSE IF text[p] = RBRACE THEN depth > 0 /\ BalancedFrom(text, p + 1, depth - 1)
    ELSE BalancedFrom(text, p + 1, depth)

Balanced(text) == BalancedFrom(text, 1, 0)

CountOpen(text) == Cardinality({p \in 1..Len(text) : text[p] = LBRACE})

\* the text with every brace of a comment line replaced by a plain character
NeutralComments(text) == [p \in 1..Len(text) |-> IF IsBrace(text[p]) /\ InCommentLine(text, p) THEN PLAIN ELSE text[p]]

RECURSIVE JoinHashed(_, _)
JoinHashed(lines, i) ==
    IF i > Len(lines) THEN <<>>
    ELSE (<<HASH>> \o lines[i]) \o (IF i < Len(lines) THEN <<NL>> ELSE <<>>) \o JoinHashed(lines, i + 1)

\* the text with '#' put before every line
HashEveryLine(text) == JoinHashed(Lines(text), 1)

\* outside comment lines the text holds braces, blanks and line feeds only,
\* and those braces are balanced
BalancedOutsideComments(text) ==
    /\ \A p \in 1..Len(text) : InCommentLine(text, p) \/ text[p] \in {LBRACE, RBRACE, SPACE, NL}
    /\ ~HasUnmatchedClose(text)
    /\ ~HasUnclosedOpen(text)

Scanned == call.op = "process_scopes"

---------------------------------------------------------------------------
(* Claims about process_scopes, under SpecScopes *)

\* C1: for a text made only of balanced braces (with blanks and line
\* feeds), process_scopes succeeds, the scope list has as many entries as
\* the text has '{' characters, and every span has start <= end.
C1_BalancedSucceeds ==
    (Scanned /\ BraceOnly(file.text) /\ Balanced(file.text)) =>
        /\ ret = Ok
        /\ Len(file.scopes) = CountOpen(file.text)
        /\ \A i \in 1..Len(file.scopes) : file.scopes[i][1] <= file.scopes[i][2]

\* a balanced text of two scopes, one of them spanning two lines, was scanned
C1_Witness ==
    /\ Scanned
    /\ BraceOnly(file.text) /\ Balanced(file.text)
    /\ Len(file.scopes) = 2
    /\ \E i \in 1..2 : file.scopes[i][1] < file.scopes[i][2]

\* C2: a text holding, outside comment lines, a '}' that comes while no
\* '{' is pending makes process_scopes fail with the Unmatched error,
\* whatever follows that brace.
C2_UnmatchedReported == (Scanned /\ HasUnmatchedClose(file.text)) => ret = Err(ErrUnmatched)

\* C3: a text holding, outside comment lines, a '{' that no later '}'
\* closes makes process_scopes fail with the Unterminated error ("Scope
\* Parse Failed") and leaves the file's scope list unset.
C3_UnterminatedReported == (Scanned /\ HasUnclosedOpen(file.text)) => (ret = Err(ErrParseFailed) /\ file.scopes = <<>>)

C5_SpansInOpeningOrder == (Scanned /\ ret = Ok) => file.scopes = RefMatch(file.text).slots

\* the text holds no character wider than one byte
NoWide(text) == \A p \in 1..Len(text) : text[p] # WIDE

\* C14: every line of the text gets its zero-based number, blank,
\* whitespace-only and comment lines counted, so the start and end of each
\* span are the zero-based positions of the lines holding the opening and
\* the closing brace.
C14_EveryLineNumbered == (Scanned /\ NoWide(file.text) /\ ret = Ok) => file.scopes = RefMatch(file.text).slots

\* C18: every line whose first non-whitespace character is not '#' has all
\* its braces processed, whatever that character is: the scan succeeds
\* exactly when the braces outside comment lines are matched, and then
\* gives one span per '{' outside comment lines.
C18_EveryLineScanned ==
    Scanned =>
        /\ ret.ok <=> (~HasUnmatchedClose(file.text) /\ ~HasUnclosedOpen(file.text))
        /\ ret.ok => Len(file.scopes) = Len(RefMatch(file.text).slots)

\* C19 as stated: the three-line text "{", "#{", "}" makes process_scopes
\* fail with the Unterminated error.
C19_ExampleUnterminated == (Scanned /\ file.text = ExampleCommentedOpen) => ret = Err(ErrParseFailed)

\* C19 as amended: on the three-line text "{", "#{", "}" process_scopes
\* succeeds with the single span [0, 2]: the '}' of line 2 closes the '{'
\* of line 0, the comment line between them is counted and not scanned.
C19_ExampleSucceeds == (Scanned /\ file.text = ExampleCommentedOpen) => (ret = Ok /\ file.scopes = <<<<0, 2>>>>)

\* the three-line text was scanned
C19_Witness == Scanned /\ file.text = ExampleCommentedOpen /\ ret.ok /\ Len(file.scopes) = 1

---------------------------------------------------------------------------
(* SpecLibrary: add_file and get_file on one Library *)

InitLibrary ==
    /\ file = FileDefault
    /\ catalog = EmptyMap
    /\ upserted = EmptyMap
    /\ defs = EmptyMap
    /\ panicked = FALSE
    /\ adds = <<>>
    /\ call = NoCall
    /\ ret = NoRet
    /\ status = "running"
    /\ sent = <<>>
    /\ handled = <<>>

AddFile(filepath, text) ==
    /\ LET r == add_file(catalog, filepath, text)
       IN  /\ catalog' = r.catalog
           /\ ret' = r.res
    /\ upserted' = MapInsert(upserted, filepath, text).map
    /\ call' = [op |-> "add_file", args |-> <<filepath, text>>]
    /\ UNCHANGED <<file, defs, panicked, adds, status, sent, handled>>

GetFile(filepath) ==
    /\ ret' = get_file(catalog, filepath)
    /\ call' = [op |-> "get_file", args |-> <<filepath>>]
    /\ UNCHANGED <<file, catalog, upserted, defs, panicked, adds, status, sent, handled>>

NextLibrary ==
    \/ \E filepath \in Uris, text \in LibTexts : AddFile(filepath, text)
    \/ \E filepath \in Uris : GetFile(filepath)

SpecLibrary == InitLibrary /\ [][NextLibrary]_vars

---------------------------------------------------------------------------
(* Claims about the file store, under SpecLibrary *)

\* the scopes process_scopes gives for a text alone: those of a fresh File
\* holding it, none when the computation fails
ScopesOfText(text) == LET r == process_scopes(with_text(text)) IN IF r.res.ok THEN r.file.scopes ELSE <<>>

ScopesFail(text) == ~process_scopes(with_text(text)).res.ok

\* C6: add_file never aborts on a malformed text: when the scope
\* computation fails for the text, the File for the uri is in the catalog
\* with that text and an empty scope list, and the scope error is what
\* add_file returns.
C6_StoredOnScopeError ==
    (call.op = "add_file" /\ ScopesFail(call.args[2])) =>
        /\ ret = process_scopes(with_text(call.args[2])).res
        /\ ~ret.ok
        /\ get_file(catalog, call.args[1]) = Some([uri |-> call.args[1], text |-> call.args[2], ast |-> "", scopes |-> <<>>])

\* add_file returned a scope error over a uri that held a File with
\* scopes, and the catalog holds the new text with no scopes
C6_Witness ==
    /\ call.op = "add_file"
    /\ ret = Err(ErrParseFailed)
    /\ \E u \in DOMAIN catalog : u # call.args[1] /\ catalog[u].scopes # <<>>
    /\ get_file(catalog, call.args[1]) = Some([uri |-> call.args[1], text |-> call.args[2], ast |-> "", scopes |-> <<>>])

\* the record get_file gives for every uri is the one of its latest add_file
LastWriteWins ==
    \A u \in Uris :
        IF u \in DOMAIN upserted
        THEN get_file(catalog, u) = Some([uri |-> u, text |-> upserted[u], ast |-> "", scopes |-> ScopesOfText(upserted[u])])
        ELSE get_file(catalog, u) = None

\* a step changes the record of no uri but the one add_file is called with
OtherUrisUnchanged ==
    \A u \in Uris :
        get_file(catalog', u) # get_file(catalog, u) => (call'.op = "add_file" /\ call'.args[1] = u)

\* C7: last write wins, full replacement: after any sequence of add_file
\* calls get_file(uri) is absent when uri was never added, and otherwise
\* holds the text of the latest add_file for that uri with the scopes
\* computed from that text alone (none when that failed); an add_file for
\* one uri leaves the records of all other uris as they were.
C7_LastWriteWins == [](LastWriteWins) /\ [][OtherUrisUnchanged]_vars

\* a uri that held a File with scopes was added again with a text whose
\* scope computation fails, while the other uri holds a File with scopes
C7_Witness ==
    /\ call.op = "add_file"
    /\ ScopesFail(call.args[2])
    /\ \E u \in DOMAIN catalog : u # call.args[1] /\ catalog[u].scopes # <<>>
    /\ catalog[call.args[1]].text = call.args[2]
    /\ catalog[call.args[1]].scopes = <<>>

---------------------------------------------------------------------------
(* SpecDefs: add, matches and definition on one Definitions *)

InitDefs ==
    /\ file = FileDefault
    /\ catalog = EmptyMap
    /\ upserted = EmptyMap
    /\ defs = EmptyMap
    /\ panicked = FALSE
    /\ adds = <<>>
    /\ call = NoCall
    /\ ret = NoRet
    /\ status = "running"
    /\ sent = <<>>
    /\ handled = <<>>

Add(key, def) ==
    /\ ~panicked
    /\ Len(adds) < MaxAdds
    /\ LET r == add(defs, key, def)
       IN  /\ defs' = r.defs
           /\ panicked' = r.panicked
    /\ adds' = Append(adds, [key |-> key, def |-> def])
    /\ call' = [op |-> "add", args |-> <<key, def>>]
    /\ ret' = Ok
    /\ UNCHANGED <<file, catalog, upserted, status, sent, handled>>

Matches(key) ==
    /\ ~panicked
    /\ ret' = matches(defs, key)
    /\ call' = [op |-> "matches", args |-> <<key>>]
    /\ UNCHANGED <<file, catalog, upserted, defs, panicked, adds, status, sent, handled>>

Definition(key, loc) ==
    /\ ~panicked
    /\ ret' = definition(defs, key, loc)
    /\ call' = [op |-> "definition", args |-> <<key, loc>>]
    /\ UNCHANGED <<file, catalog, upserted, defs, panicked, adds, status, sent, handled>>

NextDefs ==
    \/ \E key \in Names, def \in Occurrences : Add(key, def)
    \/ \E key \in Names : Matches(key)
    \/ \E key \in Names, loc \in Locations : Definition(key, loc)

SpecDefs == InitDefs /\ [][NextDefs]_vars

---------------------------------------------------------------------------
(* Claims about the definition registry, under SpecDefs *)

\* the variants that stand for a definition
DefKinds == {"FuncDef", "IdentDef"}

\* the list matches gives for key holds a node at the Location of def
ListedAt(key, def) ==
    LET m == matches(defs, key)
    IN  m.some /\ \E j \in 1..Len(m.val) : location(m.val[j]) = location(def)

\* the list matches gives for key holds def itself
Listed(key, def) ==
    LET m == matches(defs, key)
    IN  m.some /\ \E j \in 1..Len(m.val) : m.val[j] = def

\* the i-th add call is the first one made for its key
FirstForKey(i) == \A h \in 1..(i - 1) : adds[h].key # adds[i].key

\* C8: add called with a name that has no list yet creates the list and
\* inserts the occurrence, so that right afterwards matches(name) is
\* present and holds it; and after any sequence of add calls matches(name)
\* holds an occurrence for every Location that was added under name.
C8_FirstAddInserts ==
    /\ (call.op = "add" /\ FirstForKey(Len(adds))) => Listed(call.args[1], call.args[2])
    /\ \A i \in 1..Len(adds) : ListedAt(adds[i].key, adds[i].def)

\* no list holds two nodes of equal Location
NoDuplicateLocation ==
    \A key \in DOMAIN defs : \A i, j \in 1..Len(defs[key]) : location(defs[key][i]) = location(defs[key][j]) => i = j

\* C9: no two occurrences kept under one name have equal Locations, in
\* every state add calls lead to; and add(foo, occA) made twice on an empty
\* registry leaves matches(foo) with exactly one entry.
C9_DedupByLocation ==
    /\ NoDuplicateLocation
    /\ (Len(adds) = 2 /\ adds[1] = adds[2]) => (matches(defs, adds[1].key).some /\ Len(matches(defs, adds[1].key).val) = 1)

\* three adds under one name at one Location, the last two of different
\* variants, left one entry
C9_Witness ==
    /\ Len(adds) = 3
    /\ adds[1].key = adds[2].key /\ adds[2].key = adds[3].key
    /\ location(adds[1].def) = location(adds[2].def) /\ location(adds[2].def) = location(adds[3].def)
    /\ adds[2].def.kind # adds[3].def.kind
    /\ Len(defs[adds[1].key]) = 1

\* C10: definition fails for every name under which no occurrence of a
\* definition variant (FuncDef, IdentDef) was recorded: an unknown name, a
\* name with an empty list, a name with occurrences of reference variants
\* only.
C10_NoDefinitionFails ==
    (call.op = "definition" /\ \A i \in 1..Len(adds) : adds[i].key = call.args[1] => adds[i].def.kind \notin DefKinds) => ~ret.ok

\* Location l is in the file of the reference and not after it
Precedes(l, ref) == l.uri = ref.uri /\ l.line <= ref.line

\* C11: when definition succeeds for a name and a reference Location, the
\* occurrence returned is of a definition variant (FuncDef, IdentDef), lies
\* in the file of the reference and not after it, and no occurrence of a
\* definition variant recorded under the name in that file lies between it
\* and the reference.
C11_ClosestPrecedingDefinition ==
    (call.op = "definition" /\ ret.ok) =>
        /\ ret.val.kind \in DefKinds
        /\ Precedes(location(ret.val), call.args[2])
        /\ \A i \in 1..Len(adds) :
              (adds[i].key = call.args[1] /\ adds[i].def.kind \in DefKinds /\ Precedes(location(adds[i].def), call.args[2]))
                  => location(adds[i].def).line <= location(ret.val).line

\* C12: no sequence of add calls reaches the panic of new_list: the key
\* handed to new_list is never in the map, so recording is never fatal.
C12_NeverPanics == ~panicked

\* add was called three times for one name and nothing panicked
C12_Witness ==
    /\ call.op = "add"
    /\ Len(adds) = 3
    /\ adds[1].key = adds[2].key /\ adds[2].key = adds[3].key
    /\ ~panicked
    /\ DOMAIN defs = {adds[1].key}

\* the first add call made for key with an occurrence at Location l
FirstRecordedAt(key, l) ==
    LET hits == {i \in 1..Len(adds) : adds[i].key = key /\ location(adds[i].def) = l}
    IN  adds[CHOOSE i \in hits : \A h \in hits : i <= h].def

\* C15: occurrences of different variants recorded at one Location under
\* one name are one entry, and the entry kept is the one recorded first,
\* also when that one was the first record ever made for the name.
C15_FirstRecordedKept ==
    /\ NoDuplicateLocation
    /\ \A key \in DOMAIN defs : \A j \in 1..Len(defs[key]) : defs[key][j] = FirstRecordedAt(key, location(defs[key][j]))

\* a step that changes the list of a name puts the occurrence just added
\* at its end
AppendsAtEnd ==
    \A key \in DOMAIN defs : defs'[key] # defs[key] => (call'.op = "add" /\ defs'[key] = Append(defs[key], call'.args[2]))

\* C16: the list of a name is in insertion order: matches(name) yields the
\* kept occurrences in the order they were recorded, earliest first.
C16_EarliestFirst == [][AppendsAtEnd]_vars

\* every occurrence a list holds before a step, it holds after it
KeepsAll == \A key \in DOMAIN defs : key \in DOMAIN defs' /\ \A i \in 1..Len(defs[key]) : \E j \in 1..Len(defs'[key]) : defs'[key][j] = defs[key][i]

\* matches and definition change nothing of the registry
QueriesReadOnly == call'.op \in {"matches", "definition"} => defs' = defs

\* add changes the list of no name but its own
AddTouchesOneName == call'.op = "add" => \A key \in DOMAIN defs : key # call'.args[1] => defs'[key] = defs[key]

\* C20: the registry is never pruned: over any sequence of add, matches
\* and definition calls an occurrence once kept under a name stays kept,
\* matches and definition leave the registry unchanged, and add on one
\* name leaves the lists of all other names unchanged.
C20_NeverPruned == [][KeepsAll /\ QueriesReadOnly /\ AddTouchesOneName]_vars

\* definition answered on a registry of two names, one with an occurrence
C20_Witness ==
    /\ call.op = "definition"
    /\ ret.ok
    /\ Cardinality(DOMAIN defs) = 2
    /\ \E key \in DOMAIN defs : key # call.args[1] /\ defs[key] = <<>>

---------------------------------------------------------------------------
(* SpecLoop: main_loop taking messages from the connection *)

\* most messages main_loop takes in SpecLoop
MaxMsgs == 3

RequestIds == {1, 2}

\* texts of the documents opened and changed: one with matched braces, one
\* with an unclosed '{', one with an unmatched '}'
LoopTexts == {<<LBRACE, RBRACE>>, <<LBRACE>>, <<RBRACE>>}

ShutdownMethod == "shutdown"
GotoDefinitionMethod == "textDocument/definition"
HoverMethod == "textDocument/hover"
DidOpenMethod == "textDocument/didOpen"
DidChangeMethod == "textDocument/didChange"

\* a message; wf: whether its params deserialize as those of its method
Msg(kind, method, id, wf, uri, text) == [kind |-> kind, method |-> method, id |-> id, wf |-> wf, uri |-> uri, text |-> text]

Requests ==
    {Msg("request", GotoDefinitionMethod, id, wf, "", <<>>) : id \in RequestIds, wf \in BOOLEAN}
        \cup {Msg("request", m, id, TRUE, "", <<>>) : m \in {ShutdownMethod, HoverMethod}, id \in RequestIds}

Responses == {Msg("response", "", 1, TRUE, "", <<>>)}

Notifications ==
    {Msg("notification", m, 0, TRUE, u, t) : m \in {DidOpenMethod, DidChangeMethod}, u \in Uris, t \in LoopTexts}
        \cup {Msg("notification", DidOpenMethod, 0, FALSE, "", <<>>)}

Messages == Requests \cup Responses \cup Notifications

\* Response { id, result, error: None }
Response(id, result) == [id |-> id, result |-> result]

\* a plausible slip: the scope error passed on with `?`
on_did_open_propagate(cat, not) ==
    IF not.wf
    THEN LET r == add_file(cat, not.uri, not.text) IN [catalog |-> r.catalog, status |-> IF r.res.ok THEN "running" ELSE "failed"]
    ELSE [catalog |-> cat, status |-> "running"]

\* the DidOpenTextDocument arm: the result of add_file is dropped
on_did_open(cat, not) ==
    IF not.wf
    THEN [catalog |-> add_file(cat, not.uri, not.text).catalog, status |-> "running"]
    ELSE [catalog |-> cat, status |-> "running"]

\* the Notification arm of the match in main_loop
on_notification(cat, not) ==
    IF not.method = DidOpenMethod
    THEN on_did_open(cat, not)
    ELSE [catalog |-> cat, status |-> "running"]

\* the Request arm: what is sent and how the loop goes on, for every way
\* handle_shutdown can return on a shutdown request
on_request(req) ==
    IF req.method = ShutdownMethod
    THEN {[send |-> <<Response(req.id, "null")>>, status |-> st] : st \in {"shutdown", "failed"}}
    ELSE IF req.method = GotoDefinitionMethod
         THEN IF req.wf
              THEN {[send |-> <<Response(req.id, <<>>)>>, status |-> "running"]}
              ELSE {[send |-> <<>>, status |-> "panicked"]}
         ELSE {[send |-> <<>>, status |-> "running"]}

InitLoop ==
    /\ file = FileDefault
    /\ catalog = EmptyMap
    /\ upserted = EmptyMap
    /\ defs = EmptyMap
    /\ panicked = FALSE
    /\ adds = <<>>
    /\ call = NoCall
    /\ ret = NoRet
    /\ status = "running"
    /\ sent = <<>>
    /\ handled = <<>>

RecvRequest(req) ==
    /\ status = "running"
    /\ Len(handled) < MaxMsgs
    /\ \E r \in on_request(req) :
        /\ sent' = sent \o r.send
        /\ status' = r.status
        /\ panicked' = (r.status = "panicked")
    /\ handled' = Append(handled, req)
    /\ UNCHANGED <<file, catalog, upserted, defs, adds, call, ret>>

RecvResponse(resp) ==
    /\ status = "running"
    /\ Len(handled) < MaxMsgs
    /\ handled' = Append(handled, resp)
    /\ UNCHANGED <<file, catalog, upserted, defs, panicked, adds, call, ret, status, sent>>

RecvNotification(not) ==
    /\ status = "running"
    /\ Len(handled) < MaxMsgs
    /\ LET r == on_notification(catalog, not)
       IN  /\ catalog' = r.catalog
           /\ status' = r.status
    /\ handled' = Append(handled, not)
    /\ UNCHANGED <<file, upserted, defs, panicked, adds, call, ret, sent>>

\* the receiver's channel is closed: the for loop ends and main_loop returns
Disconnect ==
    /\ status = "running"
    /\ status' = "closed"
    /\ UNCHANGED <<file, catalog, upserted, defs, panicked, adds, call, ret, sent, handled>>

NextLoop ==
    \/ \E req \in Requests : RecvRequest(req)
    \/ \E resp \in Responses : RecvResponse(resp)
    \/ \E not \in Notifications : RecvNotification(not)
    \/ Disconnect

SpecLoop == InitLoop /\ [][NextLoop]_vars

---------------------------------------------------------------------------
(* Claims about the dispatcher, under SpecLoop *)

Last(seq) == seq[Len(seq)]

\* the record add_file stores for a uri and a text
RecordOf(uri, text) == [uri |-> uri, text |-> text, ast |-> "", scopes |-> ScopesOfText(text)]

IsOpen(m) == m.kind = "notification" /\ m.method = DidOpenMethod /\ m.wf

IsChange(m) == m.kind = "notification" /\ m.method = DidChangeMethod /\ m.wf

\* C13: a didChange notification with (uri, full text) is handled as a
\* didOpen is: once main_loop has processed it, the catalog's File for the
\* uri holds the text and the scopes computed from it.
C13_ChangeStored ==
    (handled # <<>> /\ IsChange(Last(handled))) =>
        get_file(catalog, Last(handled).uri) = Some(RecordOf(Last(handled).uri, Last(handled).text))

\* a didOpen whose text fails process_scopes was processed before position i
ScopeErrorBefore(i) == \E h \in 1..(i - 1) : IsOpen(handled[h]) /\ ScopesFail(handled[h].text)

\* C17: a scope error never stops main_loop: after a didOpen whose text is
\* malformed the loop is still running and the File is in the catalog; the
\* loop ends later only by shutdown, a closed channel or a malformed
\* gotoDefinition; a later gotoDefinition gets its Response and a later
\* didOpen is stored.
C17_ScopeErrorNeverStops ==
    /\ (handled # <<>> /\ IsOpen(Last(handled)) /\ ScopesFail(Last(handled).text)) =>
        /\ status \in {"running", "closed"}
        /\ get_file(catalog, Last(handled).uri) = Some([uri |-> Last(handled).uri, text |-> Last(handled).text, ast |-> "", scopes |-> <<>>])
    /\ ScopeErrorBefore(Len(handled)) =>
        /\ status \in {"shutdown", "failed"} => Last(handled).method = ShutdownMethod
        /\ status = "panicked" => (Last(handled).method = GotoDefinitionMethod /\ ~Last(handled).wf)
        /\ (Last(handled).method = GotoDefinitionMethod /\ Last(handled).wf) =>
            (status \in {"running", "closed"} /\ sent # <<>> /\ Last(sent) = Response(Last(handled).id, <<>>))
        /\ IsOpen(Last(handled)) =>
            (status \in {"running", "closed"} /\ get_file(catalog, Last(handled).uri) = Some(RecordOf(Last(handled).uri, Last(handled).text)))

\* after a didOpen with an unmatched '}' and one with an unclosed '{', a
\* gotoDefinition was answered and the loop runs on
C17_Witness ==
    /\ Len(handled) = 3
    /\ IsOpen(handled[1]) /\ handled[1].text = <<RBRACE>>
    /\ IsOpen(handled[2]) /\ handled[2].text = <<LBRACE>>
    /\ handled[3].method = GotoDefinitionMethod
    /\ status = "running"
    /\ sent = <<Response(handled[3].id, <<>>)>>
    /\ DOMAIN catalog = {handled[1].uri, handled[2].uri}

=============================================================================
